---- MODULE Spec2Model ----
(***************************************************************************)
(* tiger-phone: the phone-number parser (parsePhoneNumber) with the values  *)
(* it returns, and the PhoneInput component.  Strings are sequences of     *)
(* one-character strings; a JavaScript value is a record tagged with its   *)
(* type.                                                                   *)
(***************************************************************************)
EXTENDS Integers, Sequences, FiniteSets, TLC

\* the registry; the arguments, the returned object and the last method result
\* of a parsePhoneNumber call
VARIABLES countries, input, defaultCountry, result, pc, ret

\* the PhoneInput component: its state, its props, and the last event with
\* the value it passed to onChange
VARIABLES selectedCountry, isDropdownOpen, phoneNumber, searchTerm,
          value, defaultCountryCode, disabled, isLoading, event

\* the search term that filters the country list: useDebounce(searchTerm, 200)
VARIABLES debouncedSearchTerm

parserVars == <<input, defaultCountry, result, pc, ret>>

componentVars == <<selectedCountry, isDropdownOpen, phoneNumber, searchTerm,
                   value, defaultCountryCode, disabled, isLoading, event,
                   debouncedSearchTerm>>

vars == <<countries, parserVars, componentVars>>

(***************************************************************************)
(* Bounds                                                                  *)
(***************************************************************************)
\* longest input string that is enumerated character by character
MaxLen == 3

(***************************************************************************)
(* JavaScript values                                                       *)
(***************************************************************************)
JsNull == [type |-> "null"]

JsUndefined == [type |-> "undefined"]

JsString(s) == [type |-> "string", chars |-> s]

Digits == {"0", "1", "2", "3", "4", "5", "6", "7", "8", "9"}

DigitValue(c) ==
  CASE c = "0" -> 0 [] c = "1" -> 1 [] c = "2" -> 2 [] c = "3" -> 3
    [] c = "4" -> 4 [] c = "5" -> 5 [] c = "6" -> 6 [] c = "7" -> 7
    [] c = "8" -> 8 [] c = "9" -> 9

\* String.prototype.toUpperCase, one character
UpperChar(c) ==
  CASE c = "a" -> "A" [] c = "b" -> "B" [] c = "c" -> "C" [] c = "d" -> "D"
    [] c = "e" -> "E" [] c = "f" -> "F" [] c = "g" -> "G" [] c = "h" -> "H"
    [] c = "i" -> "I" [] c = "j" -> "J" [] c = "k" -> "K" [] c = "l" -> "L"
    [] c = "m" -> "M" [] c = "n" -> "N" [] c = "o" -> "O" [] c = "p" -> "P"
    [] c = "q" -> "Q" [] c = "r" -> "R" [] c = "s" -> "S" [] c = "t" -> "T"
    [] c = "u" -> "U" [] c = "v" -> "V" [] c = "w" -> "W" [] c = "x" -> "X"
    [] c = "y" -> "Y" [] c = "z" -> "Z" [] OTHER -> c

\* String.prototype.toUpperCase
toUpperCase(s) == [i \in 1..Len(s) |-> UpperChar(s[i])]

\* String.prototype.startsWith
startsWith(s, p) == Len(p) <= Len(s) /\ SubSeq(s, 1, Len(p)) = p

\* String.prototype.substring(n)
substring(s, n) == SubSeq(s, n + 1, Len(s))

\* index of the first occurrence of character c in s at or after i, 0 if none
RECURSIVE IndexOf(_, _, _)
IndexOf(s, c, i) ==
  IF i > Len(s) THEN 0
  ELSE IF s[i] = c THEN i
  ELSE IndexOf(s, c, i + 1)

\* s.replace("+", ""): removes the first "+" only
replacePlus(s) ==
  LET k == IndexOf(s, "+", 1)
  IN IF k = 0 THEN s ELSE SubSeq(s, 1, k - 1) \o SubSeq(s, k + 1, Len(s))

IsDigitOrPlus(c) == c \in Digits \cup {"+"}

\* the cleaning with "-" left in place
cleanInput_KeepsDash(s) == SelectSeq(s, LAMBDA c : IsDigitOrPlus(c) \/ c = "-")

\* input.replace(/[^\d+]/g, ""): keeps every digit and every "+"
cleanInput(s) == SelectSeq(s, IsDigitOrPlus)

\* /^\d+$/.test(s)
allDigits(s) == Len(s) > 0 /\ \A i \in 1..Len(s) : s[i] \in Digits

\* s.split("|")
RECURSIVE split(_)
split(s) ==
  LET k == IndexOf(s, "|", 1)
  IN IF k = 0 THEN <<s>>
     ELSE <<SubSeq(s, 1, k - 1)>> \o split(SubSeq(s, k + 1, Len(s)))

\* parseInt of a run of decimal digits
RECURSIVE parseInt(_)
parseInt(s) ==
  IF Len(s) = 0 THEN 0
  ELSE 10 * parseInt(SubSeq(s, 1, Len(s) - 1)) + DigitValue(s[Len(s)])

\* the longest run of digits of s that starts at index i
RECURSIVE digitRun(_, _)
digitRun(s, i) ==
  IF i > Len(s) \/ s[i] \notin Digits THEN <<>>
  ELSE <<s[i]>> \o digitRun(s, i + 1)

SeqMax(q) == CHOOSE m \in {q[i] : i \in 1..Len(q)} : \A j \in 1..Len(q) : q[j] <= m

SeqMin(q) == CHOOSE m \in {q[i] : i \in 1..Len(q)} : \A j \in 1..Len(q) : m <= q[j]

(***************************************************************************)
(* new RegExp(pattern).test(s), for the pattern syntax the registry uses:  *)
(* ^ and $, a parenthesised alternation of literal strings, \d, literal    *)
(* digits, and the quantifiers {n} {n,} {n,m} ? + *                        *)
(***************************************************************************)
\* stands for "no upper limit" in a quantifier
Unbounded == -1

\* the quantifier that starts at index k of pattern p (exactly once if none)
Quantifier(p, k) ==
  IF k > Len(p) THEN [min |-> 1, max |-> 1, next |-> k]
  ELSE IF p[k] = "?" THEN [min |-> 0, max |-> 1, next |-> k + 1]
  ELSE IF p[k] = "+" THEN [min |-> 1, max |-> Unbounded, next |-> k + 1]
  ELSE IF p[k] = "*" THEN [min |-> 0, max |-> Unbounded, next |-> k + 1]
  ELSE IF p[k] = "{" THEN
    LET n == digitRun(p, k + 1)
        a == k + 1 + Len(n)
    IN IF p[a] = "}" THEN [min |-> parseInt(n), max |-> parseInt(n), next |-> a + 1]
       ELSE LET m == digitRun(p, a + 1)
                b == a + 1 + Len(m)
            IN [min |-> parseInt(n),
                max |-> IF Len(m) = 0 THEN Unbounded ELSE parseInt(m),
                next |-> b + 1]
  ELSE [min |-> 1, max |-> 1, next |-> k]

\* the pattern text from index i on, as a sequence of quantified atoms
RECURSIVE Compile(_, _)
Compile(p, i) ==
  IF i > Len(p) THEN <<>>
  ELSE IF p[i] = "^" THEN <<[atom |-> [t |-> "bol"], min |-> 1, max |-> 1]>> \o Compile(p, i + 1)
  ELSE IF p[i] = "$" THEN <<[atom |-> [t |-> "eol"], min |-> 1, max |-> 1]>> \o Compile(p, i + 1)
  ELSE IF p[i] = "(" THEN
    LET j == IndexOf(p, ")", i)
        q == Quantifier(p, j + 1)
    IN <<[atom |-> [t |-> "alt", alts |-> split(SubSeq(p, i + 1, j - 1))],
          min |-> q.min, max |-> q.max]>> \o Compile(p, q.next)
  ELSE IF p[i] = "\\" THEN
    LET q == Quantifier(p, i + 2)
    IN <<[atom |-> [t |-> "digit"], min |-> q.min, max |-> q.max]>> \o Compile(p, q.next)
  ELSE
    LET q == Quantifier(p, i + 1)
    IN <<[atom |-> [t |-> "lit", c |-> p[i]], min |-> q.min, max |-> q.max]>> \o Compile(p, q.next)

\* positions of s reached by matching the atom once from position pos
\* (a position is the number of characters already consumed)
AtomStep(atom, s, pos) ==
  IF atom.t = "bol" THEN IF pos = 0 THEN {pos} ELSE {}
  ELSE IF atom.t = "eol" THEN IF pos = Len(s) THEN {pos} ELSE {}
  ELSE IF atom.t = "digit" THEN
    IF pos < Len(s) /\ s[pos + 1] \in Digits THEN {pos + 1} ELSE {}
  ELSE IF atom.t = "lit" THEN
    IF pos < Len(s) /\ s[pos + 1] = atom.c THEN {pos + 1} ELSE {}
  ELSE {pos + Len(atom.alts[a]) : a \in {b \in 1..Len(atom.alts) :
          /\ pos + Len(atom.alts[b]) <= Len(s)
          /\ SubSeq(s, pos + 1, pos + Len(atom.alts[b])) = atom.alts[b]}}

\* positions reached by matching the atom between min and max times,
\* count repetitions having led to the positions cur
RECURSIVE Repeat(_, _, _, _, _, _)
Repeat(atom, s, cur, count, min, max) ==
  LET here == IF count >= min THEN cur ELSE {}
      more == IF cur # {} /\ count <= Len(s) /\ (max = Unbounded \/ count < max)
              THEN Repeat(atom, s, UNION {AtomStep(atom, s, pos) : pos \in cur},
                          count + 1, min, max)
              ELSE {}
  IN here \cup more

\* positions reached by matching items k.. from the positions cur
RECURSIVE MatchFrom(_, _, _, _)
MatchFrom(items, k, s, cur) ==
  IF k > Len(items) \/ cur = {} THEN cur
  ELSE MatchFrom(items, k + 1, s,
                 Repeat(items[k].atom, s, cur, 0, items[k].min, items[k].max))

\* new RegExp(p).test(s): the pattern matches somewhere in s
RegExpTest(p, s) ==
  LET items == Compile(p, 1)
  IN \E start \in 0..Len(s) : MatchFrom(items, 1, s, {start}) # {}

(***************************************************************************)
(* The country registry (data/countries).  Records carry the fields the    *)
(* parser and the component read.                                          *)
(***************************************************************************)
\* pattern ^(10|11|12|15)\d{8}$
Egypt ==
  [code |-> <<"E", "G">>, nameEn |-> "Egypt", dialCode |-> <<"+", "2", "0">>,
   phonePattern |-> <<"^", "(", "1", "0", "|", "1", "1", "|", "1", "2", "|", "1", "5", ")", "\\", "d", "{", "8", "}", "$">>,
   prefixes |-> << <<"0", "1", "0">>, <<"0", "1", "1">>, <<"0", "1", "2">>, <<"0", "1", "5">> >>]

\* Egypt with the trunk digit in the pattern: ^(010|011|012|015)\d{8}$
EgyptTrunk ==
  [code |-> <<"E", "G">>, nameEn |-> "Egypt", dialCode |-> <<"+", "2", "0">>,
   phonePattern |-> <<"^", "(", "0", "1", "0", "|", "0", "1", "1", "|", "0", "1", "2", "|", "0", "1", "5", ")", "\\", "d", "{", "8", "}", "$">>,
   prefixes |-> << <<"0", "1", "0">>, <<"0", "1", "1">>, <<"0", "1", "2">>, <<"0", "1", "5">> >>]

\* pattern ^(50|53|55)\d{7}$
SaudiArabia ==
  [code |-> <<"S", "A">>, nameEn |-> "Saudi Arabia", dialCode |-> <<"+", "9", "6", "6">>,
   phonePattern |-> <<"^", "(", "5", "0", "|", "5", "3", "|", "5", "5", ")", "\\", "d", "{", "7", "}", "$">>,
   prefixes |-> << <<"0", "5", "0">>, <<"0", "5", "3">>, <<"0", "5", "5">> >>]

\* several \d{n} groups: ^\d{3}\d{7}$
UnitedStates ==
  [code |-> <<"U", "S">>, nameEn |-> "United States", dialCode |-> <<"+", "1">>,
   phonePattern |-> <<"^", "\\", "d", "{", "3", "}", "\\", "d", "{", "7", "}", "$">>,
   prefixes |-> << <<"2", "0", "1">>, <<"2", "0", "2">> >>]

\* shares the dial code +1: ^\d{3}\d{7}$
Canada ==
  [code |-> <<"C", "A">>, nameEn |-> "Canada", dialCode |-> <<"+", "1">>,
   phonePattern |-> <<"^", "\\", "d", "{", "3", "}", "\\", "d", "{", "7", "}", "$">>,
   prefixes |-> << <<"2", "0", "4">>, <<"2", "2", "6">> >>]

\* a North American territory listed with the first digits of its area code,
\* so that its dial code extends +1; pattern ^\d{7}$
Bahamas ==
  [code |-> <<"B", "S">>, nameEn |-> "Bahamas", dialCode |-> <<"+", "1", "2", "4">>,
   phonePattern |-> <<"^", "\\", "d", "{", "7", "}", "$">>,
   prefixes |-> << <<"2", "4", "2">> >>]

\* a range quantifier: ^(7)\d{8,9}$
UnitedKingdom ==
  [code |-> <<"G", "B">>, nameEn |-> "United Kingdom", dialCode |-> <<"+", "4", "4">>,
   phonePattern |-> <<"^", "(", "7", ")", "\\", "d", "{", "8", ",", "9", "}", "$">>,
   prefixes |-> << <<"0", "7">> >>]

\* neither a prefix alternation nor \d{n}: ^1\d+$
Germany ==
  [code |-> <<"D", "E">>, nameEn |-> "Germany", dialCode |-> <<"+", "4", "9">>,
   phonePattern |-> <<"^", "1", "\\", "d", "+", "$">>,
   prefixes |-> << <<"1", "5">>, <<"1", "6">>, <<"1", "7">> >>]

\* the registries the program may be built with: the countries in two
\* orders, Egypt's pattern without and with the trunk digit, the second with
\* a dial code (+124) that extends an earlier one (+1)
Registries ==
  { <<Egypt, SaudiArabia, UnitedStates, Canada, UnitedKingdom, Germany>>,
    <<Germany, UnitedKingdom, Canada, UnitedStates, Bahamas, SaudiArabia, EgyptTrunk>> }

\* Array.prototype.find over the registry: the first record whose index is in
\* matching, undefined when there is none
find(matching) ==
  IF matching = {} THEN JsUndefined
  ELSE countries[CHOOSE i \in matching : \A j \in matching : i <= j]

(***************************************************************************)
(* parsePhoneNumber                                                        *)
(***************************************************************************)
\* Number.prototype.toString, as in a template literal
RECURSIVE toString(_)
toString(n) ==
  LET d == <<"0", "1", "2", "3", "4", "5", "6", "7", "8", "9">>[(n % 10) + 1]
  IN IF n < 10 THEN <<d>> ELSE Append(toString(n \div 10), d)

\* the lookup without case folding
findDefaultCountry_CaseSensitive(code) ==
  LET found == find({i \in 1..Len(countries) : countries[i].code = code})
  IN IF found # JsUndefined THEN found
     ELSE IF Len(countries) > 0 THEN countries[1]
     ELSE JsUndefined

\* countries.find(c => c.code.toUpperCase() === defaultCountry.toUpperCase())
\*   || countries[0]
findDefaultCountry(code) ==
  LET found == find({i \in 1..Len(countries) :
                       toUpperCase(countries[i].code) = toUpperCase(code)})
  IN IF found # JsUndefined THEN found
     ELSE IF Len(countries) > 0 THEN countries[1]
     ELSE JsUndefined

\* countries.find(c => cleanNumber.startsWith(c.dialCode.replace("+", "")))
findByDialCode(cleanNumber) ==
  find({i \in 1..Len(countries) :
          startsWith(cleanNumber, replacePlus(countries[i].dialCode))})

\* the resolution without the fallback to countries[0]
resolveCountry_NoFallback(cleanNumber, code) ==
  LET byDefault == find({i \in 1..Len(countries) :
                           toUpperCase(countries[i].code) = toUpperCase(code)})
      country == findByDialCode(cleanNumber)
  IN IF startsWith(cleanNumber, <<"+">>) /\ country # JsUndefined
     THEN country
     ELSE byDefault

\* the country the parser settles on
resolveCountry(cleanNumber, code) ==
  LET byDefault == findDefaultCountry(code)
      country == findByDialCode(cleanNumber)
  IN IF startsWith(cleanNumber, <<"+">>) /\ country # JsUndefined
     THEN country
     ELSE byDefault

\* the national number cut out of the cleaned input
extractNationalNumber(cleanNumber, dialCodeDigits) ==
  IF startsWith(cleanNumber, dialCodeDigits)
  THEN substring(cleanNumber, Len(dialCodeDigits))
  ELSE IF startsWith(cleanNumber, <<"+">>)
  THEN substring(cleanNumber, 1)
  ELSE cleanNumber

\* pattern.match(/^\^?\(([\d|]+)\)/): the text captured between the
\* parentheses, JsNull when the pattern does not start with such a group
prefixMatch(pattern) ==
  LET k == IF Len(pattern) >= 1 /\ pattern[1] = "^" THEN 2 ELSE 1
  IN IF k > Len(pattern) \/ pattern[k] # "("
     THEN JsNull
     ELSE LET end == CHOOSE e \in (k + 1)..(Len(pattern) + 1) :
                       /\ \A i \in (k + 1)..(e - 1) : pattern[i] \in Digits \cup {"|"}
                       /\ (e = Len(pattern) + 1 \/ pattern[e] \notin Digits \cup {"|"})
          IN IF end > k + 1 /\ end <= Len(pattern) /\ pattern[end] = ")"
             THEN JsString(SubSeq(pattern, k + 1, end - 1))
             ELSE JsNull

\* pattern.match(/\\d{(\d+)}/g) mapped through parseInt: the n of every
\* \d{n} of the pattern from index i on, left to right
RECURSIVE digitMatch(_, _)
digitMatch(pattern, i) ==
  IF i + 4 > Len(pattern) THEN <<>>
  ELSE LET n == digitRun(pattern, i + 3)
           close == i + 3 + Len(n)
       IN IF /\ pattern[i] = "\\" /\ pattern[i + 1] = "d" /\ pattern[i + 2] = "{"
             /\ Len(n) > 0 /\ close <= Len(pattern) /\ pattern[close] = "}"
          THEN <<parseInt(n)>> \o digitMatch(pattern, close + 1)
          ELSE digitMatch(pattern, i + 1)

getLengthConstraints(pattern) ==
  LET captured == prefixMatch(pattern)
      prefixes == IF captured # JsNull THEN split(captured.chars) ELSE << <<>> >>
      found == digitMatch(pattern, 1)
      additionalDigits == IF Len(found) > 0 THEN found ELSE <<0>>
      lengths == [i \in 1..Len(prefixes) |-> Len(prefixes[i]) + SeqMax(additionalDigits)]
  IN [minLength |-> SeqMin(lengths), maxLength |-> SeqMax(lengths)]

\* the closure isValid of a result r
isValid(r) ==
  IF Len(r.nationalNumber) = 0 \/ ~allDigits(r.nationalNumber) THEN FALSE
  ELSE RegExpTest(r.selectedCountry.phonePattern, r.nationalNumber)

formatInternational(r) ==
  IF isValid(r) THEN <<"+">> \o r.dialCodeDigits \o r.nationalNumber ELSE <<>>

\* the national format without the validity guard
formatNational_Unguarded(r) == r.nationalNumber

formatNational(r) ==
  IF isValid(r) THEN r.nationalNumber ELSE <<>>

\* the E.164 form built from dialCode instead of dialCodeDigits
formatE164_WithDialCode(r) ==
  IF isValid(r) THEN <<"+">> \o r.dialCode \o r.nationalNumber ELSE <<>>

formatE164(r) ==
  IF isValid(r) THEN <<"+">> \o r.dialCodeDigits \o r.nationalNumber ELSE <<>>

\* the error decided by the digit test alone, without the country's pattern
errorMessage_DigitsOnly(r) ==
  IF allDigits(r.nationalNumber) THEN JsUndefined
  ELSE JsString(<<"Invalid phone number for ", r.selectedCountry.nameEn, ". Expected ">>
                  \o toString(r.minLength) \o <<"-">> \o toString(r.maxLength)
                  \o <<" digits, matching pattern: ">> \o r.selectedCountry.phonePattern)

\* the error field, computed once when the result is built
errorMessage(r) ==
  IF isValid(r) THEN JsUndefined
  ELSE JsString(<<"Invalid phone number for ", r.selectedCountry.nameEn, ". Expected ">>
                  \o toString(r.minLength) \o <<"-">> \o toString(r.maxLength)
                  \o <<" digits, matching pattern: ">> \o r.selectedCountry.phonePattern)

\* the guard with the typeof test only
isMissing_TypeOnly(in) == in.type # "string"

\* !input || typeof input !== "string"
isMissing(in) == in.type # "string" \/ Len(in.chars) = 0

\* parsePhoneNumber(input, defaultCountry = "EG"); the fields selectedCountry
\* and dialCodeDigits are the variables the returned closures capture
parsePhoneNumber(in, defaultArg) ==
  LET code == IF defaultArg = JsUndefined THEN <<"E", "G">> ELSE defaultArg.chars
  IN IF isMissing(in) THEN JsNull
     ELSE
       LET cleanNumber == cleanInput(in.chars)
           resolved == resolveCountry(cleanNumber, code)
       IN IF resolved = JsUndefined THEN JsNull
          ELSE
            LET dialCodeDigits == replacePlus(resolved.dialCode)
                limits == getLengthConstraints(resolved.phonePattern)
                r == [type |-> "object",
                      countryCode |-> resolved.code,
                      nationalNumber |-> extractNationalNumber(cleanNumber, dialCodeDigits),
                      dialCode |-> resolved.dialCode,
                      minLength |-> limits.minLength,
                      maxLength |-> limits.maxLength,
                      selectedCountry |-> resolved,
                      dialCodeDigits |-> dialCodeDigits]
            IN [type |-> "object",
                countryCode |-> r.countryCode,
                nationalNumber |-> r.nationalNumber,
                dialCode |-> r.dialCode,
                minLength |-> r.minLength,
                maxLength |-> r.maxLength,
                error |-> errorMessage(r),
                selectedCountry |-> r.selectedCountry,
                dialCodeDigits |-> r.dialCodeDigits]

(***************************************************************************)
(* The calls a program makes: one parse, then the methods of the result    *)
(***************************************************************************)
Alphabet == {"+", "-", "0", "1", "2", "5"}

\* every string over Alphabet of length at most n
RECURSIVE Strs(_)
Strs(n) ==
  IF n = 0 THEN {<<>>}
  ELSE LET shorter == Strs(n - 1)
       IN shorter \cup {Append(s, c) : s \in shorter, c \in Alphabet}

\* national numbers of full length, one or more per registry pattern
Nationals ==
  { <<"1", "0", "1", "4", "3", "4", "8", "4", "8", "8">>,
    <<"0", "1", "0", "1", "4", "3", "4", "8", "4", "8", "8">>,
    <<"5", "0", "1", "2", "3", "4", "5", "6", "7">>,
    <<"2", "0", "2", "5", "5", "5", "0", "1", "2", "3">>,
    <<"7", "1", "2", "3", "4", "5", "6", "7", "8", "9">>,
    <<"1", "5", "1", "2", "3", "4", "5", "6", "7", "8", "9">> }

\* the dial-code digits of the registry, and the trunk digit
DialDigits == {<<"2", "0">>, <<"9", "6", "6">>, <<"1">>, <<"4", "4">>, <<"4", "9">>, <<"0">>}

\* the inputs of the README's examples
Documented ==
  { <<"0", "1", "0", "1", "4", "3", "4", "8", "4", "8", "8">>,
    <<"+", "2", "0", "1", "0", "1", "4", "3", "4", "8", "4", "8", "8">>,
    <<"0", "1", "0", "-", "1", "4", "3", "4", "-", "8", "4", "8", "8">>,
    <<"+", "2", "0", " ", "1", "0", "1", " ", "4", "3", "4", " ", "8", "4", "8", "8">>,
    <<"5", "0", "1", "2", "3", "4", "5", "6", "7">>,
    <<"+", "9", "6", "6", "5", "0", "1", "2", "3", "4", "5", "6", "7">> }

InputStrings ==
  Strs(MaxLen) \cup Documented \cup Nationals
    \cup {p \o d \o n : p \in {<<>>, <<"+">>}, d \in DialDigits, n \in Nationals}

Inputs == {JsString(s) : s \in InputStrings} \cup {JsNull, JsUndefined}

DefaultCountries ==
  {JsString(<<"E", "G">>), JsString(<<"e", "g">>), JsString(<<"S", "a">>),
   JsString(<<"U", "S">>), JsString(<<"G", "B">>), JsString(<<"D", "E">>),
   JsString(<<"X", "X">>), JsUndefined}

Init ==
  /\ countries \in Registries
  /\ input \in Inputs
  /\ defaultCountry \in DefaultCountries
  /\ result = JsUndefined
  /\ ret = JsUndefined
  /\ pc = "call"
  /\ selectedCountry = JsNull
  /\ isDropdownOpen = FALSE
  /\ phoneNumber = <<>>
  /\ searchTerm = <<>> /\ debouncedSearchTerm = <<>>
  /\ value = <<>>
  /\ defaultCountryCode = <<"E", "G">>
  /\ disabled = FALSE
  /\ isLoading = FALSE
  /\ event = [kind |-> "none"]

\* const phone = parsePhoneNumber(input, defaultCountry)
Parse ==
  /\ pc = "call"
  /\ result' = parsePhoneNumber(input, defaultCountry)
  /\ pc' = "parsed"
  /\ UNCHANGED <<countries, input, defaultCountry, ret>>
  /\ UNCHANGED componentVars

\* phone.isValid()
CallIsValid ==
  /\ pc = "parsed" /\ result # JsNull
  /\ ret' = [method |-> "isValid", value |-> isValid(result)]
  /\ UNCHANGED <<countries, input, defaultCountry, result, pc>>
  /\ UNCHANGED componentVars

\* phone.formatInternational()
CallFormatInternational ==
  /\ pc = "parsed" /\ result # JsNull
  /\ ret' = [method |-> "formatInternational", value |-> formatInternational(result)]
  /\ UNCHANGED <<countries, input, defaultCountry, result, pc>>
  /\ UNCHANGED componentVars

\* phone.formatNational()
CallFormatNational ==
  /\ pc = "parsed" /\ result # JsNull
  /\ ret' = [method |-> "formatNational", value |-> formatNational(result)]
  /\ UNCHANGED <<countries, input, defaultCountry, result, pc>>
  /\ UNCHANGED componentVars

\* phone.formatE164()
CallFormatE164 ==
  /\ pc = "parsed" /\ result # JsNull
  /\ ret' = [method |-> "formatE164", value |-> formatE164(result)]
  /\ UNCHANGED <<countries, input, defaultCountry, result, pc>>
  /\ UNCHANGED componentVars

Next ==
  \/ Parse
  \/ CallIsValid
  \/ CallFormatInternational
  \/ CallFormatNational
  \/ CallFormatE164

Spec == Init /\ [][Next]_vars

\* the call has returned an object
Parsed == pc = "parsed" /\ result # JsNull

(***************************************************************************)
(* Properties of parsePhoneNumber                                          *)
(***************************************************************************)
IsDigit(c) == c \in Digits

\* the digits of a record's dial code
DialCodeDigitsOf(c) == SelectSeq(c.dialCode, IsDigit)

\* the defaultCountry argument as the parser receives it
DefaultCode == IF defaultCountry = JsUndefined THEN <<"E", "G">> ELSE defaultCountry.chars

\* the registry records that defaultCountry names, ignoring letter case
NamedByDefault ==
  {i \in 1..Len(countries) : toUpperCase(countries[i].code) = toUpperCase(DefaultCode)}

\* the input with everything but digits and "+" dropped
Normalized == IF input.type = "string" THEN SelectSeq(input.chars, IsDigitOrPlus) ELSE <<>>

\* the registry records whose dial-code digits follow the leading "+" of the
\* normalized input
SelfIdentified ==
  IF Len(Normalized) > 0 /\ Normalized[1] = "+"
  THEN {i \in 1..Len(countries) :
          startsWith(SubSeq(Normalized, 2, Len(Normalized)), DialCodeDigitsOf(countries[i]))}
  ELSE {}

First(S) == CHOOSE i \in S : \A j \in S : i <= j

\* C1: for a registry country C with dial code +D and national digits N,
\* parsePhoneNumber("+" + D + N, C) and parsePhoneNumber(N, C) have equal
\* nationalNumber, equal dialCode and equal isValid()
C1_DialCodeRoundTrip ==
  (Parsed /\ allDigits(input.chars) /\ NamedByDefault # {}) =>
    LET C == countries[First(NamedByDefault)]
        withDialCode == parsePhoneNumber(
                          JsString(<<"+">> \o DialCodeDigitsOf(C) \o input.chars),
                          defaultCountry)
    IN /\ withDialCode # JsNull
       /\ withDialCode.nationalNumber = result.nationalNumber
       /\ withDialCode.dialCode = result.dialCode
       /\ isValid(withDialCode) = isValid(result)

\* C2: when the normalized input starts with "+" and the digits after it begin
\* with some record's dial-code digits, countryCode and dialCode are those of
\* the first such record in registry order, whatever defaultCountry is
C2_PlusInputSelfIdentifies ==
  (Parsed /\ SelfIdentified # {}) =>
    /\ result.countryCode = countries[First(SelfIdentified)].code
    /\ result.dialCode = countries[First(SelfIdentified)].dialCode

\* C3: when the normalized input does not start with "+", countryCode is the
\* code of the record that defaultCountry names ignoring letter case, also when
\* the digits begin with another country's dial code
C3_NoPlusTrustsDefault ==
  (Parsed /\ ~startsWith(Normalized, <<"+">>)) =>
    \A i \in NamedByDefault : result.countryCode = countries[i].code

\* C3 witness: digits that begin with Saudi Arabia's or North America's dial
\* code, parsed with the default "eg", resolve to Egypt
C3_Witness ==
  /\ Parsed
  /\ defaultCountry = JsString(<<"e", "g">>)
  /\ \/ startsWith(Normalized, <<"9", "6", "6">>)
     \/ startsWith(Normalized, <<"1">>)
  /\ result.countryCode = <<"E", "G">>

\* C4 as stated: the parser returns none whenever no country is detected from
\* the input and defaultCountry equals no record's code
C4_UnknownDefaultIsNone ==
  (pc = "parsed" /\ SelfIdentified = {} /\ NamedByDefault = {}) => result = JsNull

\* C4 amended: for a non-empty string input from which no country is detected
\* and a defaultCountry that equals no record's code, the parser returns a
\* result for the first registry record
C4_UnknownDefaultFallsBackToFirst ==
  (/\ pc = "parsed"
   /\ input.type = "string" /\ Len(input.chars) > 0
   /\ SelfIdentified = {} /\ NamedByDefault = {}) =>
    /\ result # JsNull
    /\ result.countryCode = countries[1].code
    /\ result.dialCode = countries[1].dialCode

\* C4 witness: a digit string parsed with the unknown default "XX"
C4_Witness ==
  /\ Parsed
  /\ defaultCountry = JsString(<<"X", "X">>)
  /\ allDigits(input.chars)
  /\ result.countryCode = countries[1].code

\* C5: parsePhoneNumber("01014348488", "EG") is valid, has dialCode "+20",
\* formatInternational() and formatE164() equal "+201014348488" and
\* formatNational() equals the national digits
C5_ReadmeExample ==
  (/\ Parsed
   /\ input = JsString(<<"0", "1", "0", "1", "4", "3", "4", "8", "4", "8", "8">>)
   /\ defaultCountry = JsString(<<"E", "G">>)) =>
    /\ isValid(result)
    /\ result.dialCode = <<"+", "2", "0">>
    /\ formatInternational(result) = <<"+", "2", "0", "1", "0", "1", "4", "3", "4", "8", "4", "8", "8">>
    /\ formatE164(result) = <<"+", "2", "0", "1", "0", "1", "4", "3", "4", "8", "4", "8", "8">>
    /\ formatNational(result) = result.nationalNumber

\* the registry record a result names in its countryCode and dialCode fields
RecordsOf(r) ==
  {i \in 1..Len(countries) :
     countries[i].code = r.countryCode /\ countries[i].dialCode = r.dialCode}

\* C6: formatInternational() and formatE164() return the same string; for a
\* valid result it is "+", the dial-code digits, then nationalNumber, with no
\* other "+" and no separator, and formatNational() is nationalNumber; for an
\* invalid result all three return the empty string
C6_Formats ==
  Parsed =>
    /\ formatInternational(result) = formatE164(result)
    /\ isValid(result) =>
         LET e164 == formatE164(result)
         IN /\ e164 = <<"+">> \o SelectSeq(result.dialCode, IsDigit) \o result.nationalNumber
            /\ \A i \in 2..Len(e164) : e164[i] \in Digits
            /\ formatNational(result) = result.nationalNumber
    /\ ~isValid(result) =>
         /\ formatInternational(result) = <<>>
         /\ formatNational(result) = <<>>
         /\ formatE164(result) = <<>>

\* C6 witness: formatE164() has returned the E.164 form of a valid Saudi number
C6_Witness ==
  /\ Parsed
  /\ isValid(result)
  /\ result.countryCode = <<"S", "A">>
  /\ ret # JsUndefined /\ ret.method = "formatE164"
  /\ ret.value = <<"+", "9", "6", "6", "5", "0", "1", "2", "3", "4", "5", "6", "7">>

\* C7: error is a non-empty message exactly when isValid() is false and absent
\* exactly when it is true; an invalid result still carries the resolved
\* country's code and dial code; a valid result has a non-empty all-digit
\* nationalNumber that matches the resolved country's pattern
C7_ErrorIffInvalid ==
  Parsed =>
    /\ isValid(result) <=> result.error = JsUndefined
    /\ ~isValid(result) =>
         /\ result.error.type = "string"
         /\ Len(result.error.chars) > 0
    /\ RecordsOf(result) # {}
    /\ isValid(result) =>
         /\ Len(result.nationalNumber) > 0
         /\ \A i \in 1..Len(result.nationalNumber) : result.nationalNumber[i] \in Digits
         /\ \A i \in RecordsOf(result) :
              RegExpTest(countries[i].phonePattern, result.nationalNumber)

\* C7 witness: "501234567" parsed for Egypt is invalid, carries an error and
\* Egypt's code and dial code, and isValid() has returned false
C7_Witness ==
  /\ Parsed
  /\ input = JsString(<<"5", "0", "1", "2", "3", "4", "5", "6", "7">>)
  /\ result.countryCode = <<"E", "G">> /\ result.dialCode = <<"+", "2", "0">>
  /\ result.error # JsUndefined
  /\ ret # JsUndefined /\ ret.method = "isValid" /\ ret.value = FALSE

\* C8: nationalNumber contains only digit characters
C8_NationalNumberDigitsOnly ==
  Parsed => \A i \in 1..Len(result.nationalNumber) : result.nationalNumber[i] \in Digits

\* the resolved country's pattern has neither a leading parenthesised
\* alternation of digit prefixes nor a \d{n} quantifier
Unstructured(pattern) == prefixMatch(pattern) = JsNull /\ digitMatch(pattern, 1) = <<>>

\* C9: when the resolved country's pattern has neither a leading alternation
\* of digit prefixes nor a \d{n} quantifier, minLength is 7 and maxLength is 15
C9_FallbackBounds ==
  (Parsed /\ Unstructured(result.selectedCountry.phonePattern)) =>
    /\ result.minLength = 7
    /\ result.maxLength = 15

\* C10: minLength <= maxLength, and the nationalNumber of a valid result has
\* between minLength and maxLength digits
C10_BoundsAgreeWithValidity ==
  Parsed =>
    /\ result.minLength <= result.maxLength
    /\ isValid(result) =>
         /\ result.minLength <= Len(result.nationalNumber)
         /\ Len(result.nationalNumber) <= result.maxLength

\* C11: the parser returns none for the empty string and for an input that is
\* not a string (null, undefined), for every defaultCountry and every registry
C11_EmptyOrNonStringIsNone ==
  (pc = "parsed" /\ (input.type # "string" \/ Len(input.chars) = 0)) => result = JsNull

\* C11 witness: the empty string parsed with default "EG" has returned none
C11_Witness ==
  /\ pc = "parsed"
  /\ input = JsString(<<>>)
  /\ defaultCountry = JsString(<<"E", "G">>)
  /\ result = JsNull

\* characters the parser drops: anything but digits and "+"
Separators == {" ", "-", "(", ")"}

InsertAt(s, k, c) == SubSeq(s, 1, k) \o <<c>> \o SubSeq(s, k + 1, Len(s))

RemoveAt(s, k) == SubSeq(s, 1, k - 1) \o SubSeq(s, k + 1, Len(s))

\* two parser outcomes with equal fields; the methods are closures over
\* nationalNumber, selectedCountry and dialCodeDigits, which the record
\* carries, so equal records return equal values from every method
SameOutcome(a, b) == a = b

\* the strings one separator away from s: one inserted anywhere, or one removed
SeparatorEdits(s) ==
  {InsertAt(s, k, c) : k \in 0..Len(s), c \in Separators}
    \cup {RemoveAt(s, k) : k \in {j \in 1..Len(s) : ~IsDigitOrPlus(s[j])}}

\* C17 as stated: inserting or removing a character other than a digit or "+"
\* anywhere in the input leaves the outcome of the parse unchanged (compared
\* when the parse returns, before any method is called)
C17_SeparatorInsensitive ==
  (pc = "parsed" /\ ret = JsUndefined /\ input.type = "string") =>
    \A t \in SeparatorEdits(input.chars) :
      LET edited == parsePhoneNumber(JsString(t), defaultCountry)
      IN SameOutcome(edited, result)

\* C17 amended: the same, as long as neither the input nor the edited input is
\* the empty string
C17_SeparatorInsensitiveNonEmpty ==
  (pc = "parsed" /\ ret = JsUndefined /\ input.type = "string" /\ Len(input.chars) > 0) =>
    \A t \in SeparatorEdits(input.chars) :
      LET edited == parsePhoneNumber(JsString(t), defaultCountry)
      IN Len(t) > 0 => SameOutcome(edited, result)

\* C17 witness: "010-1434-8488" has been parsed to the same result as
\* "01014348488"
C17_Witness ==
  /\ Parsed
  /\ input = JsString(<<"0", "1", "0", "-", "1", "4", "3", "4", "-", "8", "4", "8", "8">>)
  /\ result.nationalNumber = <<"0", "1", "0", "1", "4", "3", "4", "8", "4", "8", "8">>
  /\ result = parsePhoneNumber(JsString(<<"0", "1", "0", "1", "4", "3", "4", "8", "4", "8", "8">>), defaultCountry)

\* what the method named m returns according to the fields of r alone
ByFields(r, m) ==
  IF m = "isValid" THEN r.error = JsUndefined
  ELSE IF r.error # JsUndefined THEN <<>>
  ELSE IF m = "formatNational" THEN r.nationalNumber
  ELSE <<"+">> \o SelectSeq(r.dialCode, IsDigit) \o r.nationalNumber

\* C18: calls of the four methods leave the result's fields and the registry
\* unchanged, every call returns what the fields fixed at construction
\* determine (so the same value each time), and a second parse of the same
\* arguments yields the same fields
C18_ImmutableValue ==
  /\ [](Parsed =>
          /\ ret # JsUndefined => ret.value = ByFields(result, ret.method)
          /\ parsePhoneNumber(input, defaultCountry) = result)
  /\ [][Parsed => (result' = result /\ countries' = countries)]_vars

\* C18 witness: formatNational() has returned "" on an invalid result
C18_Witness ==
  /\ Parsed
  /\ result.error # JsUndefined
  /\ Len(result.nationalNumber) > 0
  /\ ret # JsUndefined /\ ret.method = "formatNational" /\ ret.value = <<>>

(***************************************************************************)
(* The PhoneInput component.  Its string state and props are plain         *)
(* character sequences (the empty sequence is the falsy value, also for an *)
(* absent value prop); selectedCountry is a registry record or JsNull.     *)
(***************************************************************************)
\* longest text typed into the phone input that is enumerated character by
\* character
MaxTyped == 1

\* longest value prop with which the component is mounted again
MaxValue == 6

\* String.prototype.toLowerCase, one character
LowerChar(c) ==
  CASE c = "A" -> "a" [] c = "B" -> "b" [] c = "C" -> "c" [] c = "D" -> "d"
    [] c = "E" -> "e" [] c = "F" -> "f" [] c = "G" -> "g" [] c = "H" -> "h"
    [] c = "I" -> "i" [] c = "J" -> "j" [] c = "K" -> "k" [] c = "L" -> "l"
    [] c = "M" -> "m" [] c = "N" -> "n" [] c = "O" -> "o" [] c = "P" -> "p"
    [] c = "Q" -> "q" [] c = "R" -> "r" [] c = "S" -> "s" [] c = "T" -> "t"
    [] c = "U" -> "u" [] c = "V" -> "v" [] c = "W" -> "w" [] c = "X" -> "x"
    [] c = "Y" -> "y" [] c = "Z" -> "z" [] OTHER -> c

\* String.prototype.toLowerCase
toLowerCase(s) == [i \in 1..Len(s) |-> LowerChar(s[i])]

\* number.replace(/[^\d]/g, "")
digitsOnly(s) == SelectSeq(s, LAMBDA c : c \in Digits)

\* Array.prototype.find with null for "not found", as the detector returns it
\* the last matching record instead of the first
findOrNull_Last(matching) ==
  IF matching = {} THEN JsNull
  ELSE countries[CHOOSE i \in matching : \A j \in matching : i >= j]

findOrNull(matching) ==
  IF matching = {} THEN JsNull
  ELSE countries[CHOOSE i \in matching : \A j \in matching : i <= j]

\* useState initial value: countries.find(c => c.code.toUpperCase() ===
\*   defaultCountryCode.toUpperCase()) || countries[0]
initialSelectedCountry(code) ==
  LET found == find({i \in 1..Len(countries) :
                       toUpperCase(countries[i].code) = toUpperCase(code)})
  IN IF found # JsUndefined THEN found ELSE countries[1]

\* countries.find(c => c.code === defaultCountryCode.toLowerCase())
\*   || countries[0]
\* the lookup without the fallback to countries[0]
defaultCountryOf_NoFallback(code) ==
  findOrNull({i \in 1..Len(countries) : countries[i].code = toLowerCase(code)})

defaultCountryOf(code) ==
  LET found == find({i \in 1..Len(countries) : countries[i].code = toLowerCase(code)})
  IN IF found # JsUndefined THEN found ELSE countries[1]

\* the detector without the cleaning of its argument
detectByDialCode_Uncleaned(number) ==
  findOrNull({i \in 1..Len(countries) :
                startsWith(number, replacePlus(countries[i].dialCode))})

\* detectCountryFromNumber, first loop: the first record whose dial-code
\* digits start the cleaned number
detectByDialCode(number) ==
  LET cleanNumber == digitsOnly(number)
  IN findOrNull({i \in 1..Len(countries) :
                   startsWith(cleanNumber, replacePlus(countries[i].dialCode))})

\* Array.prototype.indexOf(x) !== -1
includes(list, x) == \E k \in 1..Len(list) : list[k] = x

\* the second loop looking at the first two digits only
detectByPrefix_TwoDigits(number) ==
  LET cleanNumber == digitsOnly(number)
  IN IF Len(cleanNumber) >= 2
     THEN findOrNull({i \in 1..Len(countries) :
                        includes(countries[i].prefixes, SubSeq(cleanNumber, 1, 2))})
     ELSE JsNull

\* detectCountryFromNumber, second loop: the first record whose prefixes hold
\* the first two or the first three digits of the cleaned number
detectByPrefix(number) ==
  LET cleanNumber == digitsOnly(number)
      prefix2 == SubSeq(cleanNumber, 1, 2)
      prefix3 == SubSeq(cleanNumber, 1, 3)
  IN IF Len(cleanNumber) >= 2
     THEN findOrNull({i \in 1..Len(countries) :
                        \/ includes(countries[i].prefixes, prefix2)
                        \/ (Len(cleanNumber) >= 3 /\ includes(countries[i].prefixes, prefix3))})
     ELSE JsNull

detectCountryFromNumber(number) ==
  IF detectByDialCode(number) # JsNull THEN detectByDialCode(number)
  ELSE detectByPrefix(number)

removeCountryCode(number, country) ==
  IF country = JsNull \/ Len(number) = 0 THEN number
  ELSE LET cleanNumber == digitsOnly(number)
           dialCodeDigits == replacePlus(country.dialCode)
       IN IF startsWith(cleanNumber, dialCodeDigits)
          THEN substring(cleanNumber, Len(dialCodeDigits))
          ELSE number

\* the dial code and the number without the space between them
fullNumber_NoSpace(country, number) == country.dialCode \o number

\* `${country.dialCode} ${number}`
fullNumber(country, number) == country.dialCode \o <<" ">> \o number

\* the value-sync effect: what it makes of the state (sel, phone) for the
\* value prop val
syncEffect(sel, phone, val, code) ==
  IF Len(val) > 0 /\ Len(phone) = 0
  THEN LET detected == detectCountryFromNumber(val)
       IN IF detected # JsNull
          THEN [selectedCountry |-> detected,
                phoneNumber |-> removeCountryCode(val, detected)]
          ELSE [selectedCountry |-> defaultCountryOf(code), phoneNumber |-> val]
  ELSE [selectedCountry |-> sel, phoneNumber |-> phone]

\* the effect that repairs a missing selection
repairEffect(sel, code) == IF sel = JsNull THEN defaultCountryOf(code) ELSE sel

\* the state once the effects have run after a render: the value-sync effect
\* runs when value or phoneNumber changed (depsChanged), the repair effect
\* when selectedCountry did
afterEffects(sel, phone, val, code, depsChanged) ==
  LET synced == IF depsChanged THEN syncEffect(sel, phone, val, code)
                ELSE [selectedCountry |-> sel, phoneNumber |-> phone]
  IN [selectedCountry |-> repairEffect(synced.selectedCountry, code),
      phoneNumber |-> synced.phoneNumber]

\* handleInputChange for e.target.value = text: the state it sets and the
\* value it passes to onChange
handleInputChange(text) ==
  LET inputValue == digitsOnly(text)
      startsWithPlus == startsWith(text, <<"+">>)
      detectedCountry == detectCountryFromNumber(
                           IF startsWithPlus THEN <<"+">> \o inputValue ELSE inputValue)
  IN IF Len(inputValue) = 0
     THEN [selectedCountry |-> defaultCountryOf(defaultCountryCode),
           phoneNumber |-> <<>>,
           emitted |-> JsString(<<>>)]
     ELSE IF /\ detectedCountry # JsNull
             /\ (selectedCountry = JsNull \/ startsWithPlus)
             /\ (startsWithPlus \/ Len(inputValue) >= 2)
     THEN [selectedCountry |-> detectedCountry,
           phoneNumber |-> removeCountryCode(inputValue, detectedCountry),
           emitted |-> JsString(fullNumber(detectedCountry,
                                           removeCountryCode(inputValue, detectedCountry)))]
     ELSE [selectedCountry |-> selectedCountry,
           phoneNumber |-> inputValue,
           emitted |-> JsString(IF selectedCountry # JsNull
                                THEN fullNumber(selectedCountry, inputValue)
                                ELSE inputValue)]

(***************************************************************************)
(* The country list of the dropdown                                        *)
(***************************************************************************)

\* String.prototype.includes
includesText(s, sub) ==
  \E k \in 0..(Len(s) - Len(sub)) : SubSeq(s, k + 1, k + Len(sub)) = sub

\* country.nameEn, character by character
nameEnOf(country) ==
  CASE country.nameEn = "Egypt" -> <<"E", "g", "y", "p", "t">>
    [] country.nameEn = "Saudi Arabia" -> <<"S", "a", "u", "d", "i", " ", "A", "r", "a", "b", "i", "a">>
    [] country.nameEn = "United States" -> <<"U", "n", "i", "t", "e", "d", " ", "S", "t", "a", "t", "e", "s">>
    [] country.nameEn = "Canada" -> <<"C", "a", "n", "a", "d", "a">>
    [] country.nameEn = "Bahamas" -> <<"B", "a", "h", "a", "m", "a", "s">>
    [] country.nameEn = "United Kingdom" -> <<"U", "n", "i", "t", "e", "d", " ", "K", "i", "n", "g", "d", "o", "m">>
    [] country.nameEn = "Germany" -> <<"G", "e", "r", "m", "a", "n", "y">>

\* country.name, the Arabic name, as the code points of its characters
nameOf(country) ==
  CASE country.nameEn = "Egypt" -> <<"U+0645", "U+0635", "U+0631">>
    [] country.nameEn = "Saudi Arabia" -> <<"U+0627", "U+0644", "U+0633", "U+0639", "U+0648", "U+062F", "U+064A", "U+0629">>
    [] country.nameEn = "United States" -> <<"U+0623", "U+0645", "U+0631", "U+064A", "U+0643", "U+0627">>
    [] country.nameEn = "Canada" -> <<"U+0643", "U+0646", "U+062F", "U+0627">>
    [] country.nameEn = "Bahamas" -> <<"U+0627", "U+0644", "U+0628", "U+0627", "U+0647", "U+0627", "U+0645", "U+0627">>
    [] country.nameEn = "United Kingdom" -> <<"U+0628", "U+0631", "U+064A", "U+0637", "U+0627", "U+0646", "U+064A", "U+0627">>
    [] country.nameEn = "Germany" -> <<"U+0623", "U+0644", "U+0645", "U+0627", "U+0646", "U+064A", "U+0627">>

\* the list with no filtering at all
filteredCountriesOf_Unfiltered(term) == countries

\* filteredCountries for a debounced search term
filteredCountriesOf(term) ==
  IF Len(term) = 0 THEN countries
  ELSE LET lowerSearch == toLowerCase(term)
       IN SelectSeq(countries,
            LAMBDA country :
               \/ includesText(nameOf(country), term)
               \/ includesText(toLowerCase(nameEnOf(country)), lowerSearch)
               \/ includesText(country.dialCode, term))

\* the list the open dropdown displays
filteredCountries == filteredCountriesOf(debouncedSearchTerm)

\* the characters typed into the phone input
TypedAlphabet == {"+", "0", "1", "2"}

RECURSIVE TypedStrs(_)
TypedStrs(n) ==
  IF n = 0 THEN {<<>>}
  ELSE LET shorter == TypedStrs(n - 1)
       IN shorter \cup {Append(s, c) : s \in shorter, c \in TypedAlphabet}

\* longer texts: dial codes and prefix hints of the registry
TypedExtras ==
  { <<"+", "2", "0", "1", "0", "1">>,
    <<"0", "1", "0">>,
    <<"0", "5", "0">>,
    <<"0", "7">>,
    <<"2", "0">>,
    <<"9", "6", "6">>,
    <<"1", "2", "4">>,
    <<"+", "1", "2", "4">> }

TypedTexts == TypedStrs(MaxTyped) \cup TypedExtras

\* the value prop at mount
ValueProps ==
  { <<>>,
    <<"+", "9", "6", "6", "5", "0", "1", "2", "3", "4", "5", "6", "7">>,
    <<"5", "5", "5", "1", "2", "3", "4">>,
    <<"0", "1", "0", "1", "4", "3", "4", "8", "4", "8", "8">> }

\* value props the parent passes in on its own: with a separator, with a "+"
\* that begins no dial code
ParentValues ==
  { <<>>,
    <<"0", "1", "0", "-", "1">>,
    <<"+", "5", " ", "5">> }

DefaultCountryCodes == {<<"E", "G">>, <<"s", "a">>}

\* with a code that names no record
ParentCountryCodes == {<<"E", "G">>, <<"X", "X">>}

\* what is typed into the dropdown's search box
SearchTerms == {<<>>, <<"e">>}

NoEvent(kind) == [kind |-> kind, text |-> <<>>, emitted |-> JsUndefined]

\* the component after mount: the initial state, then the effects
MountWith(values, codes, loading) ==
  /\ countries \in Registries
  /\ value \in values
  /\ defaultCountryCode \in codes
  /\ disabled = FALSE
  /\ isLoading \in loading
  /\ LET after == afterEffects(initialSelectedCountry(defaultCountryCode), <<>>,
                               value, defaultCountryCode, TRUE)
     IN /\ selectedCountry = after.selectedCountry
        /\ phoneNumber = after.phoneNumber
  /\ isDropdownOpen = FALSE
  /\ searchTerm = <<>>
  /\ debouncedSearchTerm = <<>>
  /\ event = NoEvent("mount")
  /\ input = JsUndefined /\ defaultCountry = JsUndefined
  /\ result = JsUndefined /\ ret = JsUndefined /\ pc = "component"

Mount == MountWith(ValueProps, DefaultCountryCodes, BOOLEAN)

\* the user edits the phone input so that it holds text; the parent keeps the
\* emitted value and passes it back as the value prop
HandleInputChange ==
  /\ ~disabled /\ ~isLoading
  /\ \E text \in TypedTexts :
       LET h == handleInputChange(text)
           newValue == h.emitted.chars
           after == afterEffects(h.selectedCountry, h.phoneNumber, newValue,
                                 defaultCountryCode,
                                 newValue # value \/ h.phoneNumber # phoneNumber)
       IN /\ selectedCountry' = after.selectedCountry
          /\ phoneNumber' = after.phoneNumber
          /\ value' = newValue
          /\ event' = [kind |-> "type", text |-> text, emitted |-> h.emitted]
  /\ UNCHANGED <<isDropdownOpen, searchTerm, defaultCountryCode, disabled, isLoading,
                 debouncedSearchTerm>>
  /\ UNCHANGED <<countries, parserVars>>

\* the user clicks a country of the list that the open dropdown displays
SelectCountry ==
  /\ isDropdownOpen
  /\ \E i \in 1..Len(filteredCountries) :
       LET country == filteredCountries[i]
           emitted == IF Len(phoneNumber) > 0
                      THEN JsString(fullNumber(country, phoneNumber))
                      ELSE JsUndefined
           newValue == IF emitted # JsUndefined THEN emitted.chars ELSE value
           after == afterEffects(country, phoneNumber, newValue, defaultCountryCode,
                                 newValue # value)
       IN /\ selectedCountry' = after.selectedCountry
          /\ phoneNumber' = after.phoneNumber
          /\ value' = newValue
          /\ event' = [kind |-> "pick", text |-> country.code, emitted |-> emitted]
  /\ isDropdownOpen' = FALSE
  /\ searchTerm' = <<>>
  /\ UNCHANGED <<defaultCountryCode, disabled, isLoading, debouncedSearchTerm>>
  /\ UNCHANGED <<countries, parserVars>>

\* the user clicks the country button (a disabled button gets no click)
ToggleDropdown ==
  /\ ~disabled /\ ~isLoading
  /\ isDropdownOpen' = ~isDropdownOpen
  /\ event' = NoEvent("toggle")
  /\ UNCHANGED <<selectedCountry, phoneNumber, searchTerm, value,
                 defaultCountryCode, disabled, isLoading, debouncedSearchTerm>>
  /\ UNCHANGED <<countries, parserVars>>

\* a mousedown outside the component
HandleClickOutside ==
  /\ isDropdownOpen' = FALSE
  /\ searchTerm' = <<>>
  /\ event' = NoEvent("outside")
  /\ UNCHANGED <<selectedCountry, phoneNumber, value,
                 defaultCountryCode, disabled, isLoading, debouncedSearchTerm>>
  /\ UNCHANGED <<countries, parserVars>>

\* the user types into the search box of the open dropdown
TypeSearch ==
  /\ isDropdownOpen
  /\ \E term \in SearchTerms : searchTerm' = term
  /\ event' = NoEvent("search")
  /\ UNCHANGED <<selectedCountry, isDropdownOpen, phoneNumber, value,
                 defaultCountryCode, disabled, isLoading, debouncedSearchTerm>>
  /\ UNCHANGED <<countries, parserVars>>

\* the parent renders the component with the disabled prop flipped
SetDisabled ==
  /\ disabled' = ~disabled
  /\ event' = NoEvent("props")
  /\ UNCHANGED <<selectedCountry, isDropdownOpen, phoneNumber, searchTerm, value,
                 defaultCountryCode, isLoading, debouncedSearchTerm>>
  /\ UNCHANGED <<countries, parserVars>>

\* the timer of useDebounce fires, 200 ms after the last change of searchTerm
DebounceFire ==
  /\ debouncedSearchTerm # searchTerm
  /\ debouncedSearchTerm' = searchTerm
  /\ UNCHANGED <<selectedCountry, isDropdownOpen, phoneNumber, searchTerm, value,
                 defaultCountryCode, disabled, isLoading, event>>
  /\ UNCHANGED <<countries, parserVars>>

\* the parent renders the component with another value prop
SetValue ==
  /\ \E v \in ParentValues :
       /\ v # value
       /\ value' = v
       /\ LET after == afterEffects(selectedCountry, phoneNumber, v,
                                    defaultCountryCode, TRUE)
          IN /\ selectedCountry' = after.selectedCountry
             /\ phoneNumber' = after.phoneNumber
  /\ event' = NoEvent("value")
  /\ UNCHANGED <<isDropdownOpen, searchTerm, defaultCountryCode, disabled, isLoading,
                 debouncedSearchTerm>>
  /\ UNCHANGED <<countries, parserVars>>

\* the parent unmounts the component and mounts it again with the props it has
Remount ==
  /\ Len(value) <= MaxValue
  /\ LET after == afterEffects(initialSelectedCountry(defaultCountryCode), <<>>,
                               value, defaultCountryCode, TRUE)
     IN /\ selectedCountry' = after.selectedCountry
        /\ phoneNumber' = after.phoneNumber
  /\ isDropdownOpen' = FALSE
  /\ searchTerm' = <<>>
  /\ debouncedSearchTerm' = <<>>
  /\ event' = NoEvent("mount")
  /\ UNCHANGED <<value, defaultCountryCode, disabled, isLoading>>
  /\ UNCHANGED <<countries, parserVars>>

ComponentNext ==
  \/ HandleInputChange
  \/ SelectCountry
  \/ ToggleDropdown
  \/ HandleClickOutside
  \/ TypeSearch
  \/ SetDisabled

ComponentSpec == Mount /\ [][ComponentNext]_vars

\* the component under a parent that mounts it, changes its value prop and
\* mounts it again, with a user who types and picks countries
LifecycleMount == MountWith(ParentValues, ParentCountryCodes, {FALSE})

LifecycleNext ==
  \/ HandleInputChange
  \/ SelectCountry
  \/ ToggleDropdown
  \/ SetValue
  \/ Remount

LifecycleSpec == LifecycleMount /\ [][LifecycleNext]_vars

\* the dropdown with its search box and the timer of useDebounce
DropdownNext ==
  \/ ToggleDropdown
  \/ TypeSearch
  \/ DebounceFire
  \/ SelectCountry
  \/ HandleClickOutside

DropdownSpec == Mount /\ [][DropdownNext]_vars

(***************************************************************************)
(* Claims about the component                                              *)
(***************************************************************************)

\* the digits of a text
DigitsOf(t) == SelectSeq(t, IsDigit)

\* the records whose dial-code digits begin the digits of t
DialMatches(t) ==
  {i \in 1..Len(countries) : startsWith(DigitsOf(t), DialCodeDigitsOf(countries[i]))}

\* the records one of whose prefix hints is the first 2 or the first 3 digits of t
HintMatches(t) ==
  {i \in 1..Len(countries) :
     \E k \in 1..Len(countries[i].prefixes) :
        \/ Len(DigitsOf(t)) >= 2 /\ countries[i].prefixes[k] = SubSeq(DigitsOf(t), 1, 2)
        \/ Len(DigitsOf(t)) >= 3 /\ countries[i].prefixes[k] = SubSeq(DigitsOf(t), 1, 3)}

\* the component has just handed a text to the detector: the value prop at
\* mount, the typed text on an input change
DetectorCalled == pc = "component" /\ event.kind \in {"mount", "type"}
DetectorInput == IF event.kind = "mount" THEN value ELSE event.text

\* the component takes the detector's record as its selection: at mount for a
\* non-empty value, on an input change for a text that begins with "+"
TakesDetected ==
  \/ event.kind = "mount" /\ Len(value) > 0
  \/ event.kind = "type" /\ startsWith(event.text, <<"+">>) /\ Len(DigitsOf(event.text)) > 0

\* C12: when the dial-code digits of some record begin the digits of the text,
\* detectCountryFromNumber returns the first such record in registry order, and
\* the component selects it; "+20101" gives the Egypt record
C12_DetectorPrimaryPass ==
  DetectorCalled =>
    LET t == DetectorInput
    IN /\ DialMatches(t) # {} =>
            /\ detectCountryFromNumber(t) = countries[First(DialMatches(t))]
            /\ TakesDetected => selectedCountry = countries[First(DialMatches(t))]
       /\ t = <<"+", "2", "0", "1", "0", "1">> => selectedCountry.code = <<"E", "G">>

C12_Witness ==
  /\ pc = "component" /\ event.kind = "type"
  /\ event.text = <<"+", "2", "0", "1", "0", "1">>
  /\ selectedCountry.code = <<"E", "G">>
  /\ phoneNumber = <<"1", "0", "1">>

\* C13: the prefix hints decide only when no dial code matched: then the result
\* is the first record in registry order with a hint equal to the first 2 or 3
\* digits, and none when there is no such record or fewer than 2 digits
C13_DetectorSecondaryPass ==
  DetectorCalled =>
    LET t == DetectorInput
        byHint == IF Len(DigitsOf(t)) >= 2 /\ HintMatches(t) # {}
                  THEN countries[First(HintMatches(t))]
                  ELSE JsNull
    IN /\ DialMatches(t) = {} =>
            /\ detectCountryFromNumber(t) = byHint
            /\ (TakesDetected /\ byHint # JsNull) => selectedCountry = byHint
       /\ (DialMatches(t) # {} /\ HintMatches(t) # {}) =>
            detectCountryFromNumber(t) \in {countries[i] : i \in DialMatches(t)}

C13_Witness ==
  /\ pc = "component" /\ event.kind = "type"
  /\ event.text = <<"0", "1", "0">>
  /\ DialMatches(event.text) = {}
  /\ detectCountryFromNumber(event.text) # JsNull
  /\ detectCountryFromNumber(event.text).code = <<"E", "G">>

\* the registry records that defaultCountryCode names, ignoring letter case
NamedByDefaultCountryCode ==
  {i \in 1..Len(countries) :
     toUpperCase(countries[i].code) = toUpperCase(defaultCountryCode)}

\* C14: after the user clears the input, selectedCountry is the record that
\* defaultCountryCode names ignoring case, whenever there is one
C14_ClearSelectsNamedDefault ==
  (pc = "component" /\ event.kind = "type" /\ DigitsOf(event.text) = <<>>
     /\ NamedByDefaultCountryCode # {}) =>
    selectedCountry = countries[First(NamedByDefaultCountryCode)]

\* C15: after an input change with digits for which the detector returns a
\* record, selectedCountry is that record, with or without a leading "+"
C15_LiveCountrySwitching ==
  (pc = "component" /\ event.kind = "type" /\ Len(DigitsOf(event.text)) > 0
     /\ detectCountryFromNumber(event.text) # JsNull) =>
    selectedCountry = detectCountryFromNumber(event.text)

\* C16: while disabled is true, no step opens the dropdown, changes
\* selectedCountry or phoneNumber, or emits a value
C16_DisabledBlocksInteraction ==
  [][(disabled /\ disabled' /\ event'.kind \in {"type", "pick", "toggle", "search", "outside"}) =>
       /\ selectedCountry' = selectedCountry
       /\ phoneNumber' = phoneNumber
       /\ (isDropdownOpen' => isDropdownOpen)
       /\ (event' # event => event'.emitted = JsUndefined)]_vars

\* C19 as stated: of the records whose dial-code digits begin the digits of
\* the text, the detector returns one with the longest dial code
C19_LongestMatchFirst ==
  DetectorCalled =>
    LET t == DetectorInput
    IN DialMatches(t) # {} =>
         \A j \in DialMatches(t) :
            Len(DialCodeDigitsOf(detectCountryFromNumber(t)))
              >= Len(DialCodeDigitsOf(countries[j]))

\* C19: of the records whose dial-code digits begin the digits of the text,
\* the detector returns the one listed first, so a record with a longer
\* matching dial code that is listed later is never returned
C19_EarliestMatchFirst ==
  DetectorCalled =>
    LET t == DetectorInput
    IN \A i, j \in DialMatches(t) :
          (i < j /\ countries[i] # countries[j]) =>
             detectCountryFromNumber(t) # countries[j]

C19_Witness ==
  /\ pc = "component" /\ event.kind = "type"
  /\ event.text = <<"+", "1", "2", "4">>
  /\ selectedCountry.code = <<"C", "A">>
  /\ \E j \in DialMatches(event.text) : countries[j].code = <<"B", "S">>

C21_ComponentRoundTrip ==
  (pc = "component" /\ event.kind = "mount") =>
    \A i \in 1..Len(countries) :
       LET prefix == countries[i].dialCode \o <<" ">>
           N == SubSeq(value, Len(prefix) + 1, Len(value))
       IN (startsWith(value, prefix) /\ Len(N) > 0 /\ DigitsOf(N) = N) =>
            (selectedCountry = countries[i] /\ phoneNumber = N)

\* C22: selectedCountry is a registry record, never null, in every state of the
\* component
C22_SelectedCountryNeverNull ==
  pc = "component" =>
    /\ selectedCountry # JsNull
    /\ \E i \in 1..Len(countries) : selectedCountry = countries[i]

C22_Witness ==
  /\ pc = "component" /\ event.kind = "type" /\ DigitsOf(event.text) = <<>>
  /\ defaultCountryCode = <<"X", "X">>
  /\ NamedByDefaultCountryCode = {}
  /\ selectedCountry = countries[1]

\* C23: phoneNumber holds digit characters only in every state of the component
C23_PhoneNumberDigitsOnly ==
  pc = "component" => DigitsOf(phoneNumber) = phoneNumber

\* C24: when the dropdown opens after a country pick or a click outside closed
\* it, the list it displays is the whole registry in registry order
C24_ReopenShowsFullList ==
  [][(~isDropdownOpen /\ event.kind \in {"pick", "outside"} /\ isDropdownOpen') =>
       filteredCountriesOf(debouncedSearchTerm') = countries]_vars

====
